---------------------------- MODULE Spec2Model ----------------------------
(***************************************************************************)
(* Model of server.py: the development HTTP server of the audio            *)
(* visualizer.  It covers find_free_port (the probe-bind loop), main (the  *)
(* start-up sequence, the listening socket, the browser launch, the        *)
(* serving loop and its interrupt handling) and                            *)
(* MyHTTPRequestHandler.end_headers (the CORS header injection).           *)
(*                                                                         *)
(* The operating system is part of the model: `busy' is the set of ports   *)
(* held by other processes, which may take and release ports while the     *)
(* server starts, and an interrupt (SIGINT, raised by Python as            *)
(* KeyboardInterrupt at the statement being executed) may arrive once the  *)
(* listening socket is bound: while the banner is printed, during the      *)
(* browser launch and while serving, idle or inside a request.             *)
(***************************************************************************)
EXTENDS Integers, Sequences, FiniteSets, TLC

(* ------------------------------ constants ------------------------------ *)

\* server.py:12   PORT = 8000
PORT == 8000

\* server.py:26   max_attempts=10 (the default main relies on)
DefaultMaxAttempts == 10

\* server.py:36   Python's None, as a value that is no port
None == -1

\* server.py:32   s.bind(('', port)): the socket module accepts 0..65535 and
\* raises OverflowError (which is no OSError) for any other port number
MaxPortNumber == 2^16 - 1

(* ------------------------------- bounds -------------------------------- *)

\* how many times other processes take or release a candidate port in a run
MaxEnvChanges == 1

\* the largest attempt count tried when find_free_port is called on its own
MaxTriedAttempts == 3

VARIABLES
    busy,          \* ports held by other processes
    envChanges,    \* number of changes other processes made to `busy'
    taken,         \* history: ports other processes took since the start
    freeAtStart,   \* history: lowest candidate port free at start, or None
    pc,            \* position of the main thread
    exit,          \* "running", "clean" (main returned), "fault" (unhandled exception)
    start_port,    \* find_free_port: parameter
    max_attempts,  \* find_free_port: parameter
    i,             \* find_free_port: loop index
    probeSocks,    \* probe sockets currently open
    probed,        \* history: the probe-binds made, <<port, succeeded>>
    port,          \* find_free_port's result, main's `port'
    httpd,         \* listening socket: "none", "listening", "closed"
    bindAttempts,  \* history: ports the listening socket was asked to bind
    out,           \* what was printed, in order
    launches,      \* number of webbrowser.open calls begun
    launchFailed,  \* whether a webbrowser.open call raised
    interrupts,    \* history: where interrupts were delivered
    hpc,           \* request handler: "idle", "end_headers", "finish"
    req,           \* the request being handled
    hbuf,          \* the handler's _headers_buffer
    wire           \* header block written to the client for the current request

vars == <<busy, envChanges, taken, freeAtStart, pc, exit, start_port, max_attempts, i,
          probeSocks, probed, port, httpd, bindAttempts, out, launches,
          launchFailed, interrupts, hpc, req, hbuf, wire>>

osVars      == <<busy, envChanges, taken>>
ffpVars     == <<start_port, max_attempts, i, probeSocks, probed, port>>
mainVars    == <<httpd, bindAttempts, out, launches, launchFailed>>
handlerVars == <<hpc, req, hbuf, wire>>


(* --------------------------- the environment --------------------------- *)

\* candidates counted from start_port + 1
Candidate_OffByOne(start, k) == start + k + 1

\* server.py:28-29   the candidate ports of a call: start_port + i, i in range(max_attempts)
Candidate(start, k) == start + k

Candidates == { Candidate(start_port, k) : k \in 0 .. (max_attempts - 1) }

\* server.py:32   port numbers the socket module accepts
ValidPort(p) == 0 <= p /\ p <= MaxPortNumber

\* lowest port of S, or None
Lowest(S) == IF S = {} THEN None ELSE CHOOSE p \in S : \A q \in S : p <= q

\* ports this process holds itself: a bound probe socket, the listening socket
HeldByServer ==
    { sk.port : sk \in { x \in probeSocks : x.bound } }
        \cup (IF httpd = "listening" THEN {port} ELSE {})

\* Start-up is over once the listening bind was attempted or main gave up;
\* from then on the state of the other ports no longer matters to the server.
StartingUp == pc \in {"main", "loop", "with_exit", "returned", "bind"}

\* another process binds a candidate port (server.py:32 and :51 then fail with OSError)
EnvTake(p) ==
    /\ StartingUp
    /\ envChanges < MaxEnvChanges
    /\ p \in Candidates
    /\ ValidPort(p)
    /\ p \notin busy
    /\ p \notin HeldByServer
    /\ busy' = busy \cup {p}
    /\ taken' = taken \cup {p}
    /\ envChanges' = envChanges + 1
    /\ UNCHANGED <<freeAtStart, pc, exit, ffpVars, mainVars, interrupts, handlerVars>>

\* another process releases a candidate port
EnvRelease(p) ==
    /\ StartingUp
    /\ envChanges < MaxEnvChanges
    /\ p \in busy
    /\ busy' = busy \ {p}
    /\ taken' = taken
    /\ envChanges' = envChanges + 1
    /\ UNCHANGED <<freeAtStart, pc, exit, ffpVars, mainVars, interrupts, handlerVars>>

(* ---------------------------- find_free_port --------------------------- *)

\* server.py:31-32   the outcome of the probe-bind: bind raises OSError when
\* another process holds the port
BindSucceeds(p) == p \notin busy

\* server.py:31   the probe socket of candidate p
ProbeSocket(p, ok) == [port |-> p, bound |-> ok]

\* server.py:28-32   for i in range(max_attempts): port = start_port + i;
\* with socket.socket(...) as s: s.bind(('', port))
Probe ==
    /\ pc = "loop"
    /\ i < max_attempts
    /\ LET p == Candidate(start_port, i) IN
        /\ ValidPort(p)
        /\ probeSocks' = probeSocks \cup {ProbeSocket(p, BindSucceeds(p))}
        /\ probed' = Append(probed, <<p, BindSucceeds(p)>>)
    /\ pc' = "with_exit"
    /\ UNCHANGED <<osVars, freeAtStart, exit, start_port, max_attempts, i, port,
                   mainVars, interrupts, handlerVars>>

\* the socket closed on the success path only
ScopeExit_NotOnError(socks, p) == { sk \in socks : ~(sk.port = p /\ sk.bound) }

\* server.py:31   leaving the `with' block closes the socket s, on return and on exception
ScopeExit(socks, p) == { sk \in socks : sk.port # p }

\* server.py:33-35   return port when the bind succeeded, else except OSError: continue
WithExit ==
    /\ pc = "with_exit"
    /\ LET p  == Candidate(start_port, i)
           ok == \E sk \in probeSocks : sk.port = p /\ sk.bound
       IN
        /\ probeSocks' = ScopeExit(probeSocks, p)
        /\ IF ok
             THEN /\ port' = p
                  /\ pc' = "returned"
                  /\ i' = i
             ELSE /\ port' = port
                  /\ pc' = "loop"
                  /\ i' = i + 1
    /\ UNCHANGED <<osVars, freeAtStart, exit, start_port, max_attempts, probed,
                   mainVars, interrupts, handlerVars>>

\* server.py:28,36   the loop is exhausted: return None
ReturnNone ==
    /\ pc = "loop"
    /\ i >= max_attempts
    /\ port' = None
    /\ pc' = "returned"
    /\ UNCHANGED <<osVars, freeAtStart, exit, start_port, max_attempts, i, probeSocks,
                   probed, mainVars, interrupts, handlerVars>>

\* server.py:29-35   a candidate above 65535: s.bind raises OverflowError, the
\* `with' block closes the socket, `except OSError' does not match and the
\* exception leaves find_free_port
ProbeOverflow ==
    /\ pc = "loop"
    /\ i < max_attempts
    /\ ~ValidPort(Candidate(start_port, i))
    /\ probed' = Append(probed, <<Candidate(start_port, i), FALSE>>)
    /\ pc' = "done"
    /\ exit' = "fault"
    /\ UNCHANGED <<osVars, freeAtStart, start_port, max_attempts, i, probeSocks, port,
                   mainVars, interrupts, handlerVars>>

(* --------------------------------- main -------------------------------- *)

\* a printed message; `p' is the port it names, None when it names no port
Msg(kind, p) == [msg |-> kind, port |-> p]

\* server.py:39,42   os.chdir(...); port = find_free_port(PORT)
Start ==
    /\ pc = "main"
    /\ start_port' = PORT
    /\ max_attempts' = DefaultMaxAttempts
    /\ i' = 0
    /\ pc' = "loop"
    /\ UNCHANGED <<osVars, freeAtStart, exit, probeSocks, probed, port, mainVars,
                   interrupts, handlerVars>>

\* a check that never sees the missing port
NoPortFound_Never(p) == FALSE

\* server.py:43   if port is None
NoPortFound(p) == p = None

\* the comparison inverted
FellBack_Inverted(p) == p = PORT

\* server.py:47   if port != PORT
FellBack(p) == p # PORT

\* server.py:43-48   the not-found message and return, or the fallback notice
CheckPort ==
    /\ pc = "returned"
    /\ IF NoPortFound(port)
         THEN /\ out' = Append(out, Msg("no_port", None))
              /\ pc' = "done"
              /\ exit' = "clean"
         ELSE /\ out' = IF FellBack(port)
                          THEN Append(out, Msg("fallback", port))
                          ELSE out
              /\ pc' = "bind"
              /\ exit' = exit
    /\ UNCHANGED <<osVars, freeAtStart, ffpVars, httpd, bindAttempts, launches,
                   launchFailed, interrupts, handlerVars>>

\* server.py:70   `except OSError' around the `with' block catches the OSError
\* that TCPServer raises when the bind is refused
BindErrorCaught == TRUE

\* the report naming the default port instead of the chosen one
BindErrorReport_NamesDefault(p) == <<Msg("bind_error", PORT), Msg("kill_hint", PORT)>>

\* server.py:71-73   the error and the lsof/kill hint, both naming the port
BindErrorReport(p) == <<Msg("bind_error", p), Msg("kill_hint", p)>>

\* server.py:51   socketserver.TCPServer(("", port), ...): server_bind and
\* server_activate; an OSError closes the socket again and reaches line 70,
\* after which main returns
Bind ==
    /\ pc = "bind"
    /\ bindAttempts' = Append(bindAttempts, port)
    /\ IF BindSucceeds(port)
         THEN /\ httpd' = "listening"
              /\ pc' = "banner"
              /\ out' = out
              /\ exit' = exit
         ELSE /\ httpd' = httpd
              /\ pc' = "done"
              /\ out' = IF BindErrorCaught THEN out \o BindErrorReport(port) ELSE out
              /\ exit' = IF BindErrorCaught THEN "clean" ELSE "fault"
    /\ UNCHANGED <<osVars, freeAtStart, ffpVars, launches, launchFailed, interrupts,
                   handlerVars>>

\* server.py:52-58   url = f"http://localhost:{port}/index.html" and the banner
Banner ==
    /\ pc = "banner"
    /\ out' = Append(out, Msg("banner", port))
    /\ pc' = "launch"
    /\ UNCHANGED <<osVars, freeAtStart, exit, ffpVars, httpd, bindAttempts, launches,
                   launchFailed, interrupts, handlerVars>>

\* an `except' that lets the launch error through
LaunchErrorCaught_Never == FALSE

\* server.py:63   the bare `except:' catches whatever webbrowser.open raises,
\* KeyboardInterrupt included
LaunchErrorCaught == TRUE

\* server.py:61-67   try: webbrowser.open(url) except: pass, then
\* httpd.serve_forever(); an exception that is not caught leaves the `with'
\* block (closing the socket) and main
Launch ==
    /\ pc = "launch"
    /\ \E raised \in BOOLEAN :
        /\ launchFailed' = raised
        /\ IF raised /\ ~LaunchErrorCaught
             THEN /\ pc' = "done"
                  /\ exit' = "fault"
                  /\ httpd' = "closed"
             ELSE /\ pc' = "serve"
                  /\ exit' = exit
                  /\ httpd' = httpd
    /\ launches' = launches + 1
    /\ UNCHANGED <<osVars, freeAtStart, ffpVars, bindAttempts, out, interrupts,
                   handlerVars>>

(* ------------------------------ interrupts ----------------------------- *)

\* no request is being handled
NoRequest == [method |-> "-", path |-> "-", version |-> "-"]

\* server.py:51-58,70   KeyboardInterrupt while the banner is printed: the
\* `with' block closes the listening socket, `except OSError' does not match
InterruptBanner ==
    /\ pc = "banner"
    /\ interrupts' = Append(interrupts, "banner")
    /\ httpd' = "closed"
    /\ pc' = "done"
    /\ exit' = "fault"
    /\ UNCHANGED <<osVars, freeAtStart, ffpVars, bindAttempts, out, launches,
                   launchFailed, handlerVars>>

\* server.py:61-64   KeyboardInterrupt during webbrowser.open(url)
InterruptLaunch ==
    /\ pc = "launch"
    /\ interrupts' = Append(interrupts, "launch")
    /\ launches' = launches + 1
    /\ launchFailed' = TRUE
    /\ IF LaunchErrorCaught
         THEN /\ pc' = "serve"
              /\ exit' = exit
              /\ httpd' = httpd
         ELSE /\ pc' = "done"
              /\ exit' = "fault"
              /\ httpd' = "closed"
    /\ UNCHANGED <<osVars, freeAtStart, ffpVars, bindAttempts, out, handlerVars>>

\* no stop notice
StopNotice_Silent == <<>>

\* server.py:69   print("\n\nServer stopped.")
StopNotice == <<Msg("stopped", None)>>

\* server.py:66-69,51   KeyboardInterrupt during httpd.serve_forever(), idle
\* ("serve") or inside a request ("request", which the socket server then
\* shuts down): it is caught, the stop notice is printed, the `with' block
\* closes the listening socket and main returns
InterruptServing ==
    /\ pc = "serve"
    /\ interrupts' = Append(interrupts, IF hpc = "idle" THEN "serve" ELSE "request")
    /\ out' = out \o StopNotice
    /\ httpd' = "closed"
    /\ pc' = "done"
    /\ exit' = "clean"
    /\ hpc' = "idle"
    /\ req' = NoRequest
    /\ hbuf' = <<>>
    /\ wire' = <<>>
    /\ UNCHANGED <<osVars, freeAtStart, ffpVars, bindAttempts, launches, launchFailed>>

(* ------------------------- MyHTTPRequestHandler ------------------------ *)

Methods  == {"GET", "OPTIONS", "POST"}
Paths    == {"/index.html", "/missing.js"}
Versions == {"HTTP/0.9", "HTTP/1.1"}

\* server.py:14   the status the inherited SimpleHTTPRequestHandler answers
\* with: it has no do_OPTIONS and no do_POST, the served directory holds
\* index.html, and an HTTP/0.9 request line allows GET only
Status(r) ==
    IF r.version = "HTTP/0.9" /\ r.method # "GET" THEN "400"
    ELSE IF r.method # "GET" THEN "501"
    ELSE IF r.path = "/index.html" THEN "200"
    ELSE "404"

\* server.py:17-19   send_header(keyword, value) of the base handler: the
\* header joins _headers_buffer unless the request is HTTP/0.9, which has no headers
SendHeader(buf, version, keyword, value) ==
    IF version # "HTTP/0.9" THEN Append(buf, <<keyword, value>>) ELSE buf

\* the blank line that ends a header block
BlankLine == <<"", "">>

\* server.py:14,22-24,67   serve_forever accepts a request and the inherited
\* handler answers it: send_response / send_error put the status line and the
\* Server header into the buffer (an error adds Connection: close);
\* log_message is overridden to print nothing
HandleRequest ==
    /\ pc = "serve"
    /\ hpc = "idle"
    /\ \E m \in Methods, pa \in Paths, v \in Versions :
        LET r  == [method |-> m, path |-> pa, version |-> v]
            b1 == SendHeader(<<>>, v, "status", Status(r))
            b2 == SendHeader(b1, v, "Server", "SimpleHTTP")
            b3 == IF Status(r) = "200" THEN b2
                  ELSE SendHeader(b2, v, "Connection", "close")
        IN /\ req' = r
           /\ hbuf' = b3
    /\ hpc' = "end_headers"
    /\ wire' = <<>>
    /\ UNCHANGED <<osVars, freeAtStart, pc, exit, ffpVars, mainVars, interrupts>>

\* a handler that allows GET only
CorsHeaders_MethodsGetOnly ==
    << <<"Access-Control-Allow-Origin", "*">>,
       <<"Access-Control-Allow-Methods", "GET">>,
       <<"Access-Control-Allow-Headers", "*">> >>

\* server.py:17-19   the three headers end_headers adds
CorsHeaders ==
    << <<"Access-Control-Allow-Origin", "*">>,
       <<"Access-Control-Allow-Methods", "GET, OPTIONS">>,
       <<"Access-Control-Allow-Headers", "*">> >>

\* server.py:15-20   end_headers: three send_header calls, then
\* super().end_headers(), which appends the blank line and writes the buffer
\* out unless the request is HTTP/0.9
EndHeaders ==
    /\ pc = "serve"
    /\ hpc = "end_headers"
    /\ LET v  == req.version
           b1 == SendHeader(hbuf, v, CorsHeaders[1][1], CorsHeaders[1][2])
           b2 == SendHeader(b1, v, CorsHeaders[2][1], CorsHeaders[2][2])
           b3 == SendHeader(b2, v, CorsHeaders[3][1], CorsHeaders[3][2])
       IN IF v # "HTTP/0.9"
            THEN /\ wire' = Append(b3, BlankLine)
                 /\ hbuf' = <<>>
            ELSE /\ wire' = wire
                 /\ hbuf' = b3
    /\ hpc' = "finish"
    /\ UNCHANGED <<osVars, freeAtStart, pc, exit, ffpVars, mainVars, interrupts, req>>

\* server.py:67   the body is sent and the request is finished; serve_forever
\* waits for the next one
FinishRequest ==
    /\ pc = "serve"
    /\ hpc = "finish"
    /\ hpc' = "idle"
    /\ req' = NoRequest
    /\ hbuf' = <<>>
    /\ wire' = <<>>
    /\ UNCHANGED <<osVars, freeAtStart, pc, exit, ffpVars, mainVars, interrupts>>

(* ---------------------------- specifications --------------------------- *)

\* what every run starts with, whatever is being run
InitCommon ==
    /\ envChanges = 0
    /\ taken = {}
    /\ exit = "running"
    /\ i = 0
    /\ probeSocks = {}
    /\ probed = <<>>
    /\ port = None
    /\ httpd = "none"
    /\ bindAttempts = <<>>
    /\ out = <<>>
    /\ launches = 0
    /\ launchFailed = FALSE
    /\ interrupts = <<>>
    /\ hpc = "idle"
    /\ req = NoRequest
    /\ hbuf = <<>>
    /\ wire = <<>>

\* server.py:75-76   python3 server.py: main() starts, with any of the
\* candidate ports held by other processes
Init ==
    /\ pc = "main"
    /\ start_port = PORT
    /\ max_attempts = DefaultMaxAttempts
    /\ busy \in SUBSET (PORT .. (PORT + DefaultMaxAttempts - 1))
    /\ freeAtStart = Lowest((PORT .. (PORT + DefaultMaxAttempts - 1)) \ busy)
    /\ InitCommon

Next ==
    \/ Start
    \/ Probe
    \/ WithExit
    \/ ReturnNone
    \/ CheckPort
    \/ Bind
    \/ Banner
    \/ Launch
    \/ HandleRequest
    \/ EndHeaders
    \/ FinishRequest
    \/ InterruptBanner
    \/ InterruptLaunch
    \/ InterruptServing
    \/ \E p \in Candidates : EnvTake(p)
    \/ \E p \in Candidates : EnvRelease(p)

Spec == Init /\ [][Next]_vars

\* start ports tried when find_free_port is called on its own: the default
\* and the two highest port numbers
StartPorts == {PORT, MaxPortNumber - 1, MaxPortNumber}

\* server.py:26   a call find_free_port(P, N) on its own, for start ports P and
\* attempt counts N, with any of its candidate ports held by other processes
InitCall ==
    /\ pc = "loop"
    /\ start_port \in StartPorts
    /\ max_attempts \in 0 .. MaxTriedAttempts
    /\ busy \in SUBSET { p \in Candidates : ValidPort(p) }
    /\ freeAtStart = Lowest({ p \in Candidates : ValidPort(p) } \ busy)
    /\ InitCommon

NextCall ==
    \/ Probe
    \/ WithExit
    \/ ReturnNone
    \/ ProbeOverflow
    \/ \E p \in Candidates : EnvTake(p)
    \/ \E p \in Candidates : EnvRelease(p)

SpecCall == InitCall /\ [][NextCall]_vars

(* -------------------------------- claims ------------------------------- *)

\* ports whose probe-bind succeeded / failed
ProbedOk     == { probed[k][1] : k \in { j \in 1 .. Len(probed) : probed[j][2] } }
ProbedFailed == { probed[k][1] : k \in { j \in 1 .. Len(probed) : ~probed[j][2] } }

Printed(kind)       == \E k \in 1 .. Len(out) : out[k].msg = kind
PrintedFor(kind, p) == \E k \in 1 .. Len(out) : out[k] = Msg(kind, p)

\* the listening bind was attempted and main moved on from it
PastBind == bindAttempts # <<>>

\* C1: for every start port P and attempt count N, find_free_port(P, N)
\* returns; what it returns is the smallest candidate whose probe-bind
\* succeeded, and it is None exactly when the probe-bind failed for all N
\* candidates; a returned port lies in [P, P+N) and its probe succeeded.
C1_ReturnsLowestProbedFree ==
    pc \in {"returned", "done"} =>
        /\ pc = "returned"
        /\ exit # "fault"
        /\ port # None =>
            /\ port \in Candidates
            /\ port \in ProbedOk
            /\ \A q \in ProbedOk : port <= q
        /\ port = None <=> (ProbedOk = {} /\ Candidates \subseteq ProbedFailed)

\* C2: every header block the handler writes out, for any method, path and
\* status, holds the three CORS headers with exactly these values, each before
\* the blank line that ends the block.
C2_CorsOnEveryResponse ==
    wire # <<>> =>
        /\ wire[Len(wire)] = BlankLine
        /\ \A h \in { <<"Access-Control-Allow-Origin", "*">>,
                      <<"Access-Control-Allow-Methods", "GET, OPTIONS">>,
                      <<"Access-Control-Allow-Headers", "*">> } :
            /\ \E k \in 1 .. (Len(wire) - 1) : wire[k] = h
            /\ \A k \in 1 .. Len(wire) : wire[k][1] = h[1] => wire[k][2] = h[2]

\* C2 witness: an error response (404 for a missing path) has been written out
C2_ErrorResponseWritten ==
    /\ hpc = "finish"
    /\ wire # <<>>
    /\ Status(req) = "404"

\* every one of the N candidates was probed and none could be bound
AllProbesFailed ==
    /\ pc # "main"
    /\ Len(probed) = max_attempts
    /\ \A k \in 1 .. Len(probed) : ~probed[k][2]

\* C3: once all N candidates (8000..8009) failed the probe, the listening
\* socket is never created or bound, neither the banner nor the fallback
\* notice is printed, the browser is not launched, Serving is not entered, and
\* main ends by printing the could-not-find message and returning.
C3_ExhaustedNoSocket ==
    AllProbesFailed =>
        /\ httpd = "none"
        /\ bindAttempts = <<>>
        /\ launches = 0
        /\ pc \in {"with_exit", "loop", "returned", "done"}
        /\ ~Printed("banner")
        /\ ~Printed("fallback")
        /\ pc \in {"returned", "done"} => port = None
        /\ pc = "done" => (out = <<Msg("no_port", None)>> /\ exit = "clean")

\* C3 witness: main has ended after ten failed probes
C3_ExhaustedAndDone == AllProbesFailed /\ pc = "done"

\* what holds once the server is bound to port p: it was the only bind
\* attempt, the socket exists, a banner that is printed shows p, and the
\* banner is printed before the browser launch and Serving
BoundTo(p) ==
    /\ bindAttempts = <<p>>
    /\ httpd # "none"
    /\ port = p
    /\ \A k \in 1 .. Len(out) : out[k].msg = "banner" => out[k].port = p
    /\ pc \in {"launch", "serve"} => PrintedFor("banner", p)

\* C4 as stated: if the default port is free when the server starts, then once
\* start-up is past the bind the server is bound to the default port, the
\* banner shows it, and no fallback notice was printed.
C4_DefaultFreeAtStart ==
    (freeAtStart = PORT /\ pc \in {"banner", "launch", "serve", "done"}) =>
        (BoundTo(PORT) /\ ~Printed("fallback"))

\* C4 amended: if the default port is free when the server starts and no
\* other process takes it before the listening socket is bound, then once
\* start-up is past the bind the server is bound to the default port, the
\* banner shows it, and no fallback notice was printed.
C4_DefaultFreeAndNotTaken ==
    (freeAtStart = PORT /\ PORT \notin taken
        /\ pc \in {"banner", "launch", "serve", "done"}) =>
        (BoundTo(PORT) /\ ~Printed("fallback"))

\* C4 witness: serving on the default port, which was free and stayed free
C4_ServingOnDefault ==
    /\ freeAtStart = PORT
    /\ PORT \notin taken
    /\ pc = "serve"
    /\ httpd = "listening"

\* C5 as stated: if the default port is occupied and a later candidate is free
\* when the server starts, then once start-up is past the bind the server is
\* bound to the lowest candidate that was free, and the fallback notice names it.
C5_LowestFreeAtStart ==
    (freeAtStart > PORT /\ pc \in {"banner", "launch", "serve", "done"}) =>
        (BoundTo(freeAtStart) /\ PrintedFor("fallback", freeAtStart))

\* C5 amended: (a) whenever the server goes on to bind a port other than the
\* default, that port is the lowest candidate whose probe-bind succeeded, all
\* lower candidates failed their probe, the fallback notice names exactly that
\* port and no other port is ever asked to bind; (b) if moreover no other
\* process takes or releases a candidate port before the bind, and the default
\* port was occupied and a later candidate free at the start, the server is
\* bound to the lowest candidate that was free at the start.
C5_LowestFreeWhenProbed ==
    /\ (pc \in {"bind", "banner", "launch", "serve"} \/ PastBind) /\ port # PORT =>
        /\ port \in ProbedOk
        /\ \A q \in PORT .. (port - 1) : q \in ProbedFailed
        /\ out[1] = Msg("fallback", port)
        /\ \A k \in 1 .. Len(out) : out[k].msg = "fallback" => k = 1
        /\ \A k \in 1 .. Len(bindAttempts) : bindAttempts[k] = port
    /\ Printed("fallback") => (port # PORT /\ port # None)
    /\ (freeAtStart > PORT /\ envChanges = 0
            /\ pc \in {"banner", "launch", "serve", "done"}) =>
        (BoundTo(freeAtStart) /\ PrintedFor("fallback", freeAtStart))

\* C5 witness: serving on a fallback port above 8001, nothing else having
\* changed the ports
C5_ServingOnFallback ==
    /\ freeAtStart > PORT + 1
    /\ envChanges = 0
    /\ pc = "serve"
    /\ port = freeAtStart

\* where the latest interrupt was delivered, "-" when there was none
LastInterrupt == IF interrupts = <<>> THEN "-" ELSE interrupts[Len(interrupts)]

\* C6: an interrupt delivered while serving, idle or with a request in
\* flight, prints the stop notice as the last output, closes the listening
\* socket and ends main by a normal return (exit code 0, no unhandled fault).
C6_InterruptWhileServingStops ==
    LastInterrupt \in {"serve", "request"} =>
        /\ pc = "done"
        /\ exit = "clean"
        /\ httpd = "closed"
        /\ out # <<>>
        /\ out[Len(out)] = Msg("stopped", None)

\* C6 witness: the server was stopped by an interrupt that arrived inside a request
C6_StoppedInsideRequest ==
    /\ LastInterrupt = "request"
    /\ pc = "done"

\* C7: the browser launch is attempted at most once and only with the
\* listening socket bound; when the launch fails, main is in Serving (or was
\* stopped from Serving by an interrupt), nothing but the fallback notice, the
\* banner and the stop notice was printed, and no fault left main.
C7_LaunchOnceAndSwallowed ==
    /\ launches <= 1
    /\ launches > 0 => (httpd # "none" /\ Len(bindAttempts) = 1)
    /\ launchFailed =>
        /\ exit # "fault"
        /\ \A k \in 1 .. Len(out) : out[k].msg \in {"fallback", "banner", "stopped"}
        /\ \/ pc = "serve" /\ httpd = "listening"
           \/ pc = "done" /\ LastInterrupt \in {"serve", "request"}

\* C7 witness: serving after a launch that raised, no interrupt involved
C7_ServingAfterFailedLaunch ==
    /\ launchFailed
    /\ interrupts = <<>>
    /\ pc = "serve"

\* the listening bind was attempted and refused
BindRefused == bindAttempts # <<>> /\ httpd = "none"

\* C8: when the OS refuses the listening bind on the chosen port, main ends
\* by a normal return after printing the OS error and the lsof/kill hint, both
\* naming that port, as its last output; there was exactly one bind attempt,
\* on that port, no banner, no browser launch and no Serving.
C8_BindRefusedIsFatal ==
    /\ Len(bindAttempts) <= 1
    /\ BindRefused =>
        /\ pc = "done"
        /\ exit = "clean"
        /\ bindAttempts = <<port>>
        /\ Len(out) >= 2
        /\ out[Len(out) - 1] = Msg("bind_error", port)
        /\ out[Len(out)] = Msg("kill_hint", port)
        /\ ~Printed("banner")
        /\ launches = 0
        /\ interrupts = <<>>

\* C8 witness: the bind of a fallback port was refused, the port having been
\* taken between its probe and the bind
C8_LostTheRace ==
    /\ BindRefused
    /\ port # PORT
    /\ port \in ProbedOk
    /\ port \in taken

\* C9: once an interrupt was delivered after the listening socket was bound
\* (banner, browser launch, serving), the listening socket is closed and main
\* has ended: no such interrupt leaves the server running.
C9_InterruptNeverLost ==
    interrupts # <<>> => (pc = "done" /\ httpd = "closed")

\* C10: probes go up one port at a time from start_port; at most one probe
\* socket is open at a time and only between a probe-bind and the end of its
\* `with' block; once find_free_port has returned a port no candidate above it
\* was probed; no probe socket is open when the listening bind is made or later.
C10_ProbesSequentialAndReleased ==
    /\ \A k \in 1 .. Len(probed) : probed[k][1] = start_port + (k - 1)
    /\ Cardinality(probeSocks) <= 1
    /\ pc # "with_exit" => probeSocks = {}
    /\ pc = "with_exit" =>
        probeSocks = { ProbeSocket(probed[Len(probed)][1], probed[Len(probed)][2]) }
    /\ (pc \notin {"main", "loop", "with_exit"} /\ port # None) =>
        \A k \in 1 .. Len(probed) : probed[k][1] <= port
    /\ (pc = "bind" \/ PastBind) => probeSocks = {}

\* C10 witness: the server listens after two failed probes and a successful one
C10_ListeningAfterThreeProbes ==
    /\ httpd = "listening"
    /\ Len(probed) = 3
    /\ port = PORT + 2

=============================================================================
